---- MODULE Spec2Model ----
(***************************************************************************)
(* Smile Tree: the p5 sketch engine (createSketch: forest, signal          *)
(* smoothing, branch rendering, falling particles), the React host that    *)
(* mounts it (App, SketchContainer) and the vision service.                *)
(*                                                                         *)
(* Reals are fixed-point integers in units of 1/Scale (mood 1.0 = Scale,   *)
(* a pixel = Scale).  p5's seeded generator is a linear congruential       *)
(* generator; it is kept as one, with a modulus that fits TLC's integers.  *)
(* p.noise and the tip geometry that decides where a particle spawns are   *)
(* inputs drawn from small sets.                                           *)
(***************************************************************************)
EXTENDS Integers, Sequences, FiniteSets, TLC

VARIABLES
    hostSceneMode,      \* what getSceneMode() returns (sceneModeRef.current)
    hostTreeState,      \* what getTreeState() returns (treeStateRef.current)
    hostFlowerStyle,    \* what getFlowerStyle() returns (flowerStyleRef.current)
    window,             \* the browser window: p.windowWidth, p.windowHeight
    mounted,            \* a p5 instance running the sketch exists
    pc,                 \* position inside p.draw: idle, render, particles, integrate
    width, height,      \* p.width, p.height: the canvas
    currentMood,        \* smoothed mood
    currentWind,        \* smoothed wind
    currentSceneMode,   \* tracker for mode changes
    forest,             \* TreeInstance[]
    particles,          \* Particle[], in spawn order
    rngState,           \* p5's seeded random stream
    frameCount,         \* p.frameCount
    mode,               \* p.draw's local: the scene mode read in this tick
    calls,              \* accessor calls, and the spawnFallingParticle calls,
                        \* made by the tick in progress (or last)
    rebuilt,            \* the tick in progress (or last) rebuilt the forest
    nextId,             \* serial number of the next particle spawned
    interactionMode,    \* App state: click, smile, forever
    permissionError,    \* App state
    modelsLoaded,       \* App state
    isLoadingSmile,     \* App state
    streamRef,          \* App ref: a camera stream is held
    videoPlaying,       \* the <video> element plays the stream
    videoTime,          \* video.currentTime, in frames
    clickMoodRef,       \* App ref, in units of 1/(ClickUnit * Scale)
    requestRef,         \* App ref: the animation frames requested so far
    hmc,                \* position of handleModeChange('smile'): none, init, camera, play
    initializationPromise, \* vision service: null, pending, resolved
    initStep,           \* position of the pending initialization: resolver, face, gesture
    faceLandmarker,     \* vision service: the model is loaded
    gestureRecognizer,  \* vision service: the model is loaded
    lastVideoTime,      \* vision service
    lastHandX,          \* vision service
    promiseId,          \* identity of the promise initializationPromise holds, 0 for null
    loading,            \* bodies of initializeVision started and not yet settled
    held,               \* the promise each direct caller of initializeVision got last
    lastCall,           \* the last call of an export of the vision service, and its result
    visionFailed        \* a model load or a camera request has failed

hostVars == <<hostSceneMode, hostTreeState, hostFlowerStyle, window>>
appVars == <<interactionMode, permissionError, modelsLoaded, isLoadingSmile,
             streamRef, videoPlaying, videoTime, clickMoodRef, requestRef, hmc,
             visionFailed>>
visionVars == <<initializationPromise, initStep, faceLandmarker, gestureRecognizer,
                lastVideoTime, lastHandX, promiseId, loading, held, lastCall>>
engineVars == <<mounted, pc, width, height, currentMood, currentWind,
                currentSceneMode, forest, particles, rngState, frameCount,
                mode, calls, rebuilt, nextId>>
vars == <<hostVars, engineVars, appVars, visionVars>>

----------------------------------------------------------------------------
(* Fixed point *)

Scale == 10^3

TruncDiv(a, b) == IF a >= 0 THEN a \div b ELSE -((-a) \div b)

\* a / b to the nearest unit, for a >= 0
RoundDiv(a, b) == (2 * a + b) \div (2 * b)

\* p.lerp(start, stop, amt) with amt = num/den
Lerp(start, stop, num, den) == start + TruncDiv((stop - start) * num, den)

Min(a, b) == IF a < b THEN a ELSE b

\* p.constrain
Constrain(v, lo, hi) == IF v < lo THEN lo ELSE IF v > hi THEN hi ELSE v

----------------------------------------------------------------------------
(* p5's seeded random stream: z := (a*z + c) % m, random() = z/m *)

RngM == 2^15
RngA == 20077
RngC == 12345

RngSeed(seed) == seed % RngM

\* p.randomSeed(seed) on the stream z: the stream restarts from the seed
RandomSeed(z, seed) == RngSeed(seed)

\* the stream of a new p5 instance before its first p.randomSeed; setup
\* reseeds it before the first draw
UnseededStream == 0

RngNext(z) == (RngA * z + RngC) % RngM

\* the affine map of n steps of the stream, as <<multiplier, increment>>
RECURSIVE RngPow(_)
RngPow(n) ==
    IF n = 0 THEN <<1, 0>>
    ELSE LET h  == RngPow(n \div 2)
             sq == <<(h[1] * h[1]) % RngM, (h[1] * h[2] + h[2]) % RngM>>
         IN  IF n % 2 = 0 THEN sq
             ELSE <<(RngA * sq[1]) % RngM, (RngA * sq[2] + RngC) % RngM>>

\* the stream after n draws
RngSkip(z, n) == LET p == RngPow(n) IN (p[1] * z + p[2]) % RngM

\* p.random(lo, hi) read off the stream state z the draw left
RandomIn(z, lo, hi) == lo + (z * (hi - lo)) \div RngM

----------------------------------------------------------------------------
(* Forest *)

\* draws one createBranch(depth) makes, with r = maxDepth - depth levels below
RECURSIVE SkeletonDraws(_)
SkeletonDraws(r) == IF r = 0 THEN 3 ELSE 3 + 2 * (SkeletonDraws(r - 1) + 1)

TrunkLen(w, h) == h * (IF w < 600 THEN 220 ELSE 260)

\* p.PI / 5.0
BaseAngle == 628

TrunkThick(w) == (IF w < 600 THEN 18 ELSE 28) * Scale

\* a buildTreeSkeleton without the p.randomSeed of line 146
BuildTreeSkeletonUnseeded(z, maxDepth, seed, w, h) ==
    [maxDepth |-> maxDepth, rng0 |-> z,
     len |-> TrunkLen(w, h), thick |-> TrunkThick(w)]

\* buildTreeSkeleton(maxDepth, seed): the skeleton is kept as the stream it is
\* created from (createBranch draws every field from it) and the root's size
BuildTreeSkeleton(z, maxDepth, seed, w, h) ==
    [maxDepth |-> maxDepth, rng0 |-> RandomSeed(z, seed),
     len |-> TrunkLen(w, h), thick |-> TrunkThick(w)]

\* the stream a skeleton's creation leaves
StreamAfter(sk) == RngSkip(sk.rng0, SkeletonDraws(sk.maxDepth))

\* createBranch(depth), lines 153-180, drawing from the stream at z: the
\* branch and the stream it leaves.  Every field comes from the stream in the
\* code's order: noiseThreshold, hasFlower, lenMult, then per child its whole
\* subtree followed by its angle.
RECURSIVE CreateBranch(_, _, _)
CreateBranch(depth, maxDepth, z) ==
    LET z1 == RngNext(z)
        z2 == RngNext(z1)
        z3 == RngNext(z2)
        branch == [len |-> 0, thick |-> 0, depth |-> depth, angleOffset |-> 0,
                   children |-> << >>,
                   noiseThreshold |-> RandomIn(z1, 50, 950),
                   hasFlower |-> RandomIn(z2, 0, Scale) > 250,
                   lenMult |-> 720 + RandomIn(z3, -80, 80)]
    IN  IF depth < maxDepth
        THEN LET c1 == CreateBranch(depth + 1, maxDepth, z3)
                 a1 == RngNext(c1.rng)
                 c2 == CreateBranch(depth + 1, maxDepth, a1)
                 a2 == RngNext(c2.rng)
                 child1 == [c1.branch EXCEPT
                               !.angleOffset = -BaseAngle + RandomIn(a1, -150, 150)]
                 child2 == [c2.branch EXCEPT
                               !.angleOffset = BaseAngle + RandomIn(a2, -150, 150)]
             IN  [branch |-> [branch EXCEPT !.children = <<child1, child2>>],
                  rng |-> a2]
        ELSE [branch |-> branch, rng |-> z3]

\* the Branch tree buildTreeSkeleton returned, lines 182-185
Skeleton(sk) ==
    [CreateBranch(0, sk.maxDepth, sk.rng0).branch EXCEPT
        !.len = sk.len, !.thick = sk.thick]

ForestTreeCount == 10

ForestSeed(i) == 5555 + i * 937

\* a forest tree placed as if the range were split in ten
ForestTreeBunched(z, i, w, h) ==
    LET seed == ForestSeed(i)
        z1   == RngNext(RandomSeed(z, seed))
    IN  [xRatio |-> 50 + 90 * i,
         scale  |-> RandomIn(z1, 300, 420),
         seed   |-> seed,
         branch |-> BuildTreeSkeleton(z1, 7, seed, w, h)]

\* the i-th tree of the forest, lines 121-140, built on the stream z
ForestTree(z, i, w, h) ==
    LET seed == ForestSeed(i)
        t    == RoundDiv(i * Scale, ForestTreeCount - 1)
        z1   == RngNext(RandomSeed(z, seed))
    IN  [xRatio |-> 50 + RoundDiv(t * 900, Scale),
         scale  |-> RandomIn(z1, 300, 420),
         seed   |-> seed,
         branch |-> BuildTreeSkeleton(z1, 7, seed, w, h)]

\* the stream the i-th tree of the forest is built on: the one the tree before left
RECURSIVE ForestStream(_, _, _, _)
ForestStream(z, i, w, h) ==
    IF i = 0 THEN z
    ELSE StreamAfter(ForestTree(ForestStream(z, i - 1, w, h), i - 1, w, h).branch)

\* the n trees of the forest, lines 121-140
ForestTrees(z, n, w, h) ==
    [k \in 1..n |-> ForestTree(ForestStream(z, k - 1, w, h), k - 1, w, h)]

\* rebuildForest's forest for scene mode m, lines 89-142, built on the stream z
ForestFor(z, m, w, h) ==
    IF m = 1 THEN
        << [xRatio |-> 500, scale |-> 1000, seed |-> 1234,
            branch |-> BuildTreeSkeleton(z, 9, 1234, w, h)] >>
    ELSE IF m = 2 THEN
        LET first == BuildTreeSkeleton(z, 8, 2222, w, h)
        IN  << [xRatio |-> 300, scale |-> 750, seed |-> 2222, branch |-> first],
               [xRatio |-> 700, scale |-> 750, seed |-> 3333,
                branch |-> BuildTreeSkeleton(StreamAfter(first), 8, 3333, w, h)] >>
    ELSE ForestTrees(z, ForestTreeCount, w, h)

\* the random stream rebuildForest leaves: the last skeleton's, after its draws
StreamAfterBuild(trees) == StreamAfter(trees[Len(trees)].branch)

\* a rebuildForest that reads the scene mode once more than line 83 does
RebuildForestReadingTwice(z, w, h) ==
    [currentSceneMode |-> hostSceneMode,
     forest |-> ForestFor(z, hostSceneMode, w, h),
     rngState |-> StreamAfterBuild(ForestFor(z, hostSceneMode, w, h)),
     sceneModeCalls |-> 2]

\* rebuildForest on the stream z: reads the scene mode (line 83), records it
\* (line 84), replaces the forest
RebuildForest(z, w, h) ==
    [currentSceneMode |-> hostSceneMode,
     forest |-> ForestFor(z, hostSceneMode, w, h),
     rngState |-> StreamAfterBuild(ForestFor(z, hostSceneMode, w, h)),
     sceneModeCalls |-> 1]

\* renderBranch's maxDepth
RenderMaxDepth == IF currentSceneMode = 3 THEN 7 ELSE IF currentSceneMode = 2 THEN 8 ELSE 9

\* renderBranch's bloomFactor = p.map(currentMood, 0, 1, 0, 1, true)
BloomFactor == Constrain(currentMood, 0, Scale)

\* foliage that hangs on every twig whatever the mood
IsAttachedAlways(bloomFactor, branch) == TRUE

\* line 343
IsAttached(bloomFactor, branch) == bloomFactor > branch.noiseThreshold

\* renderBranch, lines 315-386, at branch `path` of a tree: the branches it
\* calls drawAttachedFoliage for, in the subtree it walks
RECURSIVE RenderBranch(_, _, _, _, _)
RenderBranch(branch, len, path, bloomFactor, maxDepth) ==
    LET isAttached == IsAttached(bloomFactor, branch)
        foliage == IF branch.depth > maxDepth - 4 /\ isAttached THEN {path} ELSE {}
    IN  IF branch.depth >= maxDepth \/ len < 4 * Scale THEN foliage
        ELSE foliage \cup
             UNION { RenderBranch(branch.children[i],
                                  (len * branch.children[i].lenMult) \div Scale,
                                  Append(path, i), bloomFactor, maxDepth)
                     : i \in 1..Len(branch.children) }

\* every branch of a skeleton with the length renderBranch gives it and whether
\* the recursion of line 363 gets to it
RECURSIVE Branches(_, _, _, _, _)
Branches(branch, len, path, reached, maxDepth) ==
    { [path |-> path, depth |-> branch.depth,
       noiseThreshold |-> branch.noiseThreshold, len |-> len, reached |-> reached] }
    \cup
    UNION { Branches(branch.children[i],
                     (len * branch.children[i].lenMult) \div Scale,
                     Append(path, i),
                     reached /\ ~(branch.depth >= maxDepth \/ len < 4 * Scale),
                     maxDepth)
            : i \in 1..Len(branch.children) }

TreeBranches(tree, maxDepth) ==
    Branches(Skeleton(tree.branch), (tree.branch.len * tree.scale) \div Scale,
             << >>, TRUE, maxDepth)

\* clickMoodRef counts in halves of 1/Scale: DECAY_RATE 0.0015 is 3 of them
ClickUnit == 2

----------------------------------------------------------------------------
(* Particles *)

MAX_PARTICLES == 400

\* where a branch tip asks for a particle, in the canvas or off it
TipAt(tip, w, h) ==
    CASE tip = "mid"   -> [x |-> (w \div 2) * Scale, y |-> (h \div 2) * Scale]
      [] tip = "low"   -> [x |-> (w \div 2) * Scale, y |-> h * Scale]
      [] tip = "below" -> [x |-> (w \div 2) * Scale, y |-> h * Scale + 1]
      [] tip = "right" -> [x |-> (w + 50) * Scale + 1, y |-> (h \div 2) * Scale]
      [] tip = "left"  -> [x |-> -50 * Scale - 1, y |-> (h \div 2) * Scale]
      [] tip = "edge"  -> [x |-> (w + 50) * Scale, y |-> (h \div 2) * Scale]

\* no spawnFallingParticle call made
NoSpawn == [count |-> 0, x |-> 0, y |-> 0]

\* a spawnFallingParticle without the test of line 420
SpawnFallingParticleAnywhere(st, x, y, w, h) ==
    LET zvy == RngSkip(st.rngState, 2)
    IN  [particles |-> Append(st.particles,
                              [id |-> st.nextId, life |-> 255, age |-> 0, x0 |-> x,
                               y |-> y, vy |-> RandomIn(zvy, 1500, 3500)]),
         rngState  |-> RngSkip(st.rngState, 11),
         nextId    |-> st.nextId + 1]

\* spawnFallingParticle(x, y, scale) on <<particles, rngState, nextId>>
SpawnFallingParticle(st, x, y, w, h) ==
    IF x < -50 * Scale \/ x > (w + 50) * Scale \/ y > h * Scale THEN st
    ELSE LET zvy == RngSkip(st.rngState, 2)
         IN  [particles |-> Append(st.particles,
                                   [id |-> st.nextId, life |-> 255, age |-> 0,
                                    x0 |-> x, y |-> y,
                                    vy |-> RandomIn(zvy, 1500, 3500)]),
              rngState  |-> RngSkip(st.rngState, 11),
              nextId    |-> st.nextId + 1]

\* the particle the i-th of k calls in a row adds (none when the call returns early)
SpawnedBy(st, i, x, y, w, h) ==
    SpawnFallingParticle([particles |-> << >>,
                          rngState  |-> RngSkip(st.rngState, 11 * (i - 1)),
                          nextId    |-> st.nextId + (i - 1)], x, y, w, h)

\* k calls of spawnFallingParticle(x, y, scale) in a row
SpawnMany(st, k, x, y, w, h) ==
    IF k = 0 \/ SpawnedBy(st, 1, x, y, w, h).particles = << >> THEN st
    ELSE [particles |-> st.particles \o
                        [i \in 1..k |-> SpawnedBy(st, i, x, y, w, h).particles[1]],
          rngState  |-> SpawnedBy(st, k, x, y, w, h).rngState,
          nextId    |-> st.nextId + k]

\* an updateParticles that never trims
TrimNothing(ps) == ps

\* an updateParticles that trims from the wrong end: splice(MAX_PARTICLES)
TrimNewest(ps) ==
    IF Len(ps) > MAX_PARTICLES THEN SubSeq(ps, 1, MAX_PARTICLES) ELSE ps

\* updateParticles, lines 446-448
TrimParticles(ps) ==
    IF Len(ps) > MAX_PARTICLES
    THEN SubSeq(ps, Len(ps) - MAX_PARTICLES + 1, Len(ps))
    ELSE ps

\* an integration that fades a particle by 1 a tick
IntegrateParticleFadingSlowly(part) ==
    LET vy == ((part.vy + 100) * 94) \div 100
    IN  [part EXCEPT !.vy = vy, !.y = part.y + vy, !.life = part.life - 1,
                     !.age = part.age + 1]

\* one particle's integration, lines 453-467 (vertical motion and life); age
\* counts the integrations the particle has gone through
IntegrateParticle(part) ==
    LET vy == ((part.vy + 100) * 94) \div 100
    IN  [part EXCEPT !.vy = vy, !.y = part.y + vy, !.life = part.life - 2,
                     !.age = part.age + 1]

\* a removal test that forgets the life
RemovedWhenFallen(part, h) == part.y > (h + 100) * Scale

\* a removal test that forgets the fall out of the viewport
RemovedWhenFaded(part, h) == part.life <= 0

\* line 469
Removed(part, h) == part.life <= 0 \/ part.y > (h + 100) * Scale

\* updateParticles, lines 450-496
IntegrateParticles(ps, h) ==
    LET moved == [i \in 1..Len(ps) |-> IntegrateParticle(ps[i])]
    IN  SelectSeq(moved, LAMBDA part : ~Removed(part, h))

----------------------------------------------------------------------------
(* p.draw *)

\* a p.draw that never notices a scene-mode change
NeverNeedsRebuild(m) == FALSE

\* line 249
NeedsRebuild(m) == m # currentSceneMode

\* a smoothing that withers as fast as it blooms
SmoothMoodSymmetric(cur, raw) == Lerp(cur, raw, 10, 100)

\* lines 258-262
SmoothMood(cur, raw) ==
    IF raw >= cur THEN Lerp(cur, raw, 10, 100) ELSE Lerp(cur, raw, 3, 100)

\* a smoothing that steps past its target
SmoothWindOvershooting(cur, raw) == Lerp(cur, raw, 120, 100)

\* line 265
SmoothWind(cur, raw) == Lerp(cur, raw, 12, 100)

\* lines 246-285: scene mode check, state read, smoothing
DrawBegin(E) ==
    /\ mounted
    /\ pc = "idle"
    /\ frameCount < E.maxFrames
    /\ frameCount' = frameCount + 1
    /\ mode' = hostSceneMode
    /\ LET rb == RebuildForest(rngState, width, height)
       IN  IF NeedsRebuild(hostSceneMode)
           THEN /\ currentSceneMode' = rb.currentSceneMode
                /\ forest' = rb.forest
                /\ rngState' = rb.rngState
                /\ rebuilt' = TRUE
                /\ calls' = [sceneMode |-> 1 + rb.sceneModeCalls,
                             treeState |-> 1, flowerStyle |-> 1, spawn |-> NoSpawn]
           ELSE /\ UNCHANGED <<currentSceneMode, forest, rngState>>
                /\ rebuilt' = FALSE
                /\ calls' = [sceneMode |-> 1, treeState |-> 1, flowerStyle |-> 1,
                             spawn |-> NoSpawn]
    /\ currentMood' = SmoothMood(currentMood, hostTreeState.mood)
    /\ currentWind' = SmoothWind(currentWind, hostTreeState.windForce)
    /\ pc' = "render"
    /\ UNCHANGED <<mounted, width, height, particles, nextId>>
    /\ UNCHANGED <<hostVars, appVars, visionVars>>

\* the most near-terminal branches a forest of the mode can hold
NearTerminalMax ==
    LET built == IF currentSceneMode = 1 THEN 9 ELSE IF currentSceneMode = 2 THEN 8 ELSE 7
        lo    == RenderMaxDepth - 3
    IN  Len(forest) * (2^(built + 1) - 2^lo)

\* lines 287-309: the forest walk; what it changes is the particles it spawns
DrawForest(E) ==
    /\ pc = "render"
    /\ \/ /\ BloomFactor > 300
          /\ frameCount <= E.maxSpawnFrame
          /\ \E sp \in E.spawns :
                /\ sp.count > 0
                /\ sp.count <= NearTerminalMax
                /\ nextId + sp.count <= E.maxSpawned
                /\ LET at == TipAt(sp.tip, width, height)
                       st == SpawnMany([particles |-> particles, rngState |-> rngState,
                                        nextId |-> nextId], sp.count, at.x, at.y,
                                       width, height)
                   IN  /\ particles' = st.particles
                       /\ rngState' = st.rngState
                       /\ nextId' = st.nextId
                       /\ calls' = [calls EXCEPT !.spawn = [count |-> sp.count,
                                                            x |-> at.x, y |-> at.y]]
       \/ UNCHANGED <<particles, rngState, nextId, calls>>
    /\ pc' = "particles"
    /\ UNCHANGED <<mounted, width, height, currentMood, currentWind, currentSceneMode,
                   forest, frameCount, mode, rebuilt>>
    /\ UNCHANGED <<hostVars, appVars, visionVars>>

\* updateParticles, lines 446-448
ParticlesTrim ==
    /\ pc = "particles"
    /\ particles' = TrimParticles(particles)
    /\ pc' = "integrate"
    /\ UNCHANGED <<mounted, width, height, currentMood, currentWind, currentSceneMode,
                   forest, rngState, frameCount, mode, calls, rebuilt, nextId>>
    /\ UNCHANGED <<hostVars, appVars, visionVars>>

\* updateParticles, lines 450-496
ParticlesIntegrate ==
    /\ pc = "integrate"
    /\ particles' = IntegrateParticles(particles, height)
    /\ pc' = "idle"
    /\ UNCHANGED <<mounted, width, height, currentMood, currentWind, currentSceneMode,
                   forest, rngState, frameCount, mode, calls, rebuilt, nextId>>
    /\ UNCHANGED <<hostVars, appVars, visionVars>>

\* p.windowResized
WindowResized(E) ==
    /\ mounted
    /\ pc = "idle"
    /\ \E sz \in E.sizes \ {window} :
          /\ window' = sz
          /\ width' = sz[1]
          /\ height' = sz[2]
          /\ LET rb == RebuildForest(rngState, sz[1], sz[2])
             IN  /\ currentSceneMode' = rb.currentSceneMode
                 /\ forest' = rb.forest
                 /\ rngState' = rb.rngState
    /\ UNCHANGED <<hostSceneMode, hostTreeState, hostFlowerStyle, appVars, visionVars>>
    /\ UNCHANGED <<mounted, pc, currentMood, currentWind, particles, frameCount,
                   mode, calls, rebuilt, nextId>>

----------------------------------------------------------------------------
(* The host behind the three accessors *)

HostSetSceneMode(E) ==
    /\ pc = "idle"
    /\ \E m \in E.modes \ {hostSceneMode} : hostSceneMode' = m
    /\ UNCHANGED <<hostTreeState, hostFlowerStyle, window>>
    /\ UNCHANGED <<engineVars, appVars, visionVars>>

HostSetTreeState(E) ==
    /\ pc = "idle"
    /\ \E s \in E.treeStates \ {hostTreeState} : hostTreeState' = s
    /\ UNCHANGED <<hostSceneMode, hostFlowerStyle, window>>
    /\ UNCHANGED <<engineVars, appVars, visionVars>>

----------------------------------------------------------------------------
(* SketchContainer: the p5 instance lives as long as the component *)

\* createSketch's closure variables and p.setup, in the window as it is
NewSketch ==
    LET rb == RebuildForest(UnseededStream, window[1], window[2])
    IN  [width |-> window[1], height |-> window[2],
         currentMood |-> 0, currentWind |-> 0,
         currentSceneMode |-> rb.currentSceneMode,
         forest |-> rb.forest, rngState |-> rb.rngState,
         particles |-> << >>, frameCount |-> 0, mode |-> 0,
         calls |-> [sceneMode |-> 0, treeState |-> 0, flowerStyle |-> 0,
                    spawn |-> NoSpawn],
         rebuilt |-> FALSE, nextId |-> 0]

\* the engine's variables after the mount effect (on = TRUE, lines 27-36) or
\* its cleanup (on = FALSE, lines 38-44: remove() discards the instance)
SketchBecomes(on) ==
    /\ mounted' = on
    /\ pc' = "idle"
    /\ width' = NewSketch.width
    /\ height' = NewSketch.height
    /\ currentMood' = NewSketch.currentMood
    /\ currentWind' = NewSketch.currentWind
    /\ currentSceneMode' = NewSketch.currentSceneMode
    /\ forest' = NewSketch.forest
    /\ rngState' = NewSketch.rngState
    /\ particles' = NewSketch.particles
    /\ frameCount' = NewSketch.frameCount
    /\ mode' = NewSketch.mode
    /\ calls' = NewSketch.calls
    /\ rebuilt' = NewSketch.rebuilt
    /\ nextId' = NewSketch.nextId

\* App renders <SketchContainer/> only while permissionError is false (line 301)
RenderApp(err) ==
    IF err = permissionError THEN UNCHANGED engineVars
    ELSE SketchBecomes(~err)

----------------------------------------------------------------------------
(* visionService *)

\* analyzeFrame's mood score from the face result
FaceMood(face) ==
    IF face.kind # "face" THEN 0
    ELSE IF face.smile > 5 THEN Min((face.smile - 5) * 40, Scale)
    ELSE IF face.frown > 5 THEN -Min((face.frown - 5) * 40, Scale)
    ELSE 0

\* analyzeFrame's movement score from the gesture result
HandMovement(hand) ==
    LET deltaX == hand.x - lastHandX
        speed  == IF deltaX < 0 THEN -deltaX ELSE deltaX
    IN  IF hand.kind = "hand" /\ 2 * speed > 1
        THEN Constrain(deltaX * 150, -Scale, Scale)
        ELSE 0

\* an analyzeFrame that records the timestamp before its safety check
AnalyzeFrameStamping(time, hasSize, face, hand) ==
    IF ~faceLandmarker \/ ~gestureRecognizer \/ time = lastVideoTime \/ ~hasSize
    THEN [moodScore |-> 0, movementScore |-> 0,
          lastVideoTime |-> time, lastHandX |-> lastHandX]
    ELSE [moodScore |-> FaceMood(face), movementScore |-> HandMovement(hand),
          lastVideoTime |-> time,
          lastHandX |-> IF hand.kind = "hand" THEN hand.x ELSE lastHandX]

\* analyzeFrame(video): the scores and the module state it leaves
AnalyzeFrame(time, hasSize, face, hand) ==
    IF ~faceLandmarker \/ ~gestureRecognizer \/ time = lastVideoTime \/ ~hasSize
    THEN [moodScore |-> 0, movementScore |-> 0,
          lastVideoTime |-> lastVideoTime, lastHandX |-> lastHandX]
    ELSE [moodScore |-> FaceMood(face), movementScore |-> HandMovement(hand),
          lastVideoTime |-> time,
          lastHandX |-> IF hand.kind = "hand" THEN hand.x ELSE lastHandX]

\* the call of analyzeFrame as lastCall records it
AnalyzeCall(time, r) ==
    [op |-> "analyzeFrame", seq |-> 1 - lastCall.seq, time |-> time,
     moodScore |-> r.moodScore, movementScore |-> r.movementScore]

\* the direct callers of initializeVision besides App
Callers == {1, 2}

\* a promise object no caller holds and the module does not store
FreshPromise ==
    LET ids     == 1..(Cardinality(Callers) + 2)
        free(i) == i # promiseId /\ \A c \in Callers : held[c] # i
    IN  CHOOSE i \in ids : free(i) /\ \A j \in ids : free(j) => i <= j

\* an initializeVision without the test of line 20
InitializeVisionAgain ==
    /\ initializationPromise' = "pending"
    /\ initStep' = "resolver"
    /\ promiseId' = FreshPromise
    /\ loading' = loading + 1

\* initializeVision(): the promise the caller gets hold of is promiseId'
InitializeVision ==
    IF initializationPromise # "null"
    THEN UNCHANGED <<initializationPromise, initStep, promiseId, loading>>
    ELSE /\ initializationPromise' = "pending"
         /\ initStep' = "resolver"
         /\ promiseId' = FreshPromise
         /\ loading' = loading + 1

\* the call of initializeVision as lastCall records it
InitializeCall(by) ==
    [op |-> "initializeVision", seq |-> 1 - lastCall.seq, by |-> by,
     promise |-> promiseId']

\* a caller other than App calls initializeVision()
CallInitializeVision ==
    /\ pc = "idle"
    /\ \E c \in Callers :
          /\ InitializeVision
          /\ held' = [held EXCEPT ![c] = promiseId']
          /\ lastCall' = InitializeCall(c)
    /\ UNCHANGED <<faceLandmarker, gestureRecognizer, lastVideoTime, lastHandX>>
    /\ UNCHANGED <<hostVars, engineVars, appVars>>

\* a caller other than App calls analyzeFrame(video)
CallAnalyzeFrame(E) ==
    /\ pc = "idle"
    /\ \E time \in 0..E.maxVideoTime, hasSize \in E.videoSized,
          face \in E.faces, hand \in E.hands :
          LET r == AnalyzeFrame(time, hasSize, face, hand)
          IN  /\ lastVideoTime' = r.lastVideoTime
              /\ lastHandX' = r.lastHandX
              /\ lastCall' = AnalyzeCall(time, r)
    /\ UNCHANGED <<initializationPromise, initStep, faceLandmarker, gestureRecognizer,
                   promiseId, loading, held>>
    /\ UNCHANGED <<hostVars, engineVars, appVars>>

----------------------------------------------------------------------------
(* App *)

\* enableCamera() entered from handleModeChange: with a stream held it returns
\* at once and the mode is switched; otherwise getUserMedia is awaited
EnableCamera ==
    IF streamRef
    THEN /\ interactionMode' = "smile"
         /\ isLoadingSmile' = FALSE
         /\ hmc' = "none"
    ELSE /\ hmc' = "camera"
         /\ isLoadingSmile' = TRUE
         /\ UNCHANGED interactionMode

\* handleModeChange('click' | 'forever'), lines 262 and 285
HandleModeChange ==
    /\ pc = "idle"
    /\ ~permissionError
    /\ \E m \in {"click", "forever"} \ {interactionMode} : interactionMode' = m
    /\ UNCHANGED <<permissionError, modelsLoaded, isLoadingSmile, streamRef,
                   videoPlaying, videoTime, clickMoodRef, requestRef, hmc, visionFailed>>
    /\ UNCHANGED <<hostVars, engineVars, visionVars>>

\* handleModeChange('smile') up to its first await, lines 262-273
HandleModeChangeSmile ==
    /\ pc = "idle"
    /\ ~permissionError
    /\ ~isLoadingSmile
    /\ interactionMode # "smile"
    /\ IF ~modelsLoaded
       THEN /\ InitializeVision
            /\ lastCall' = InitializeCall(0)
            /\ hmc' = "init"
            /\ isLoadingSmile' = TRUE
            /\ UNCHANGED interactionMode
       ELSE /\ EnableCamera
            /\ UNCHANGED <<initializationPromise, initStep, promiseId, loading,
                           lastCall>>
    /\ UNCHANGED <<permissionError, modelsLoaded, streamRef, videoPlaying, videoTime,
                   clickMoodRef, requestRef, visionFailed>>
    /\ UNCHANGED <<faceLandmarker, gestureRecognizer, lastVideoTime, lastHandX, held>>
    /\ UNCHANGED <<hostVars, engineVars>>

\* one await of initializeVision's body settles (lines 26-56); when the promise
\* settles, handleModeChange goes on (lines 270-273) or lands in its catch
VisionLoad ==
    /\ pc = "idle"
    /\ initializationPromise = "pending"
    /\ \E ok \in BOOLEAN :
          IF ~ok THEN
              /\ initializationPromise' = "null"
              /\ promiseId' = 0
              /\ loading' = loading - 1
              /\ initStep' = "none"
              /\ visionFailed' = TRUE
              /\ IF hmc = "init"
                 THEN hmc' = "none" /\ isLoadingSmile' = FALSE
                 ELSE UNCHANGED <<hmc, isLoadingSmile>>
              /\ UNCHANGED <<faceLandmarker, gestureRecognizer, modelsLoaded,
                             interactionMode>>
          ELSE IF initStep = "resolver" THEN
              /\ initStep' = "face"
              /\ UNCHANGED <<initializationPromise, promiseId, loading,
                             faceLandmarker, gestureRecognizer,
                             modelsLoaded, interactionMode, hmc, isLoadingSmile,
                             visionFailed>>
          ELSE IF initStep = "face" THEN
              /\ faceLandmarker' = TRUE
              /\ initStep' = "gesture"
              /\ UNCHANGED <<initializationPromise, promiseId, loading, gestureRecognizer,
                             modelsLoaded, interactionMode, hmc, isLoadingSmile,
                             visionFailed>>
          ELSE
              /\ gestureRecognizer' = TRUE
              /\ initializationPromise' = "resolved"
              /\ loading' = loading - 1
              /\ initStep' = "none"
              /\ UNCHANGED promiseId
              /\ IF hmc = "init"
                 THEN modelsLoaded' = TRUE /\ EnableCamera
                 ELSE UNCHANGED <<modelsLoaded, interactionMode, hmc, isLoadingSmile>>
              /\ UNCHANGED <<faceLandmarker, visionFailed>>
    /\ UNCHANGED <<permissionError, streamRef, videoPlaying, videoTime, clickMoodRef,
                   requestRef, lastVideoTime, lastHandX, held, lastCall>>
    /\ UNCHANGED <<hostVars, engineVars>>

\* getUserMedia settles (lines 245-250, 254-257)
CameraAnswer ==
    /\ pc = "idle"
    /\ hmc = "camera"
    /\ \E granted \in BOOLEAN :
          IF granted
          THEN /\ streamRef' = TRUE
               /\ hmc' = "play"
               /\ UNCHANGED <<permissionError, isLoadingSmile, visionFailed>>
               /\ UNCHANGED engineVars
          ELSE /\ permissionError' = TRUE
               /\ isLoadingSmile' = FALSE
               /\ hmc' = "none"
               /\ visionFailed' = TRUE
               /\ RenderApp(TRUE)
               /\ UNCHANGED streamRef
    /\ UNCHANGED <<interactionMode, modelsLoaded, videoPlaying, videoTime,
                   clickMoodRef, requestRef>>
    /\ UNCHANGED <<hostVars, visionVars>>

\* video.play() settles (lines 251-257), then handleModeChange lines 275, 282
VideoPlay ==
    /\ pc = "idle"
    /\ hmc = "play"
    /\ \E ok \in BOOLEAN :
          IF ok
          THEN /\ videoPlaying' = TRUE
               /\ permissionError' = FALSE
               /\ interactionMode' = "smile"
               /\ visionFailed' = FALSE
               /\ RenderApp(FALSE)
          ELSE /\ permissionError' = TRUE
               /\ visionFailed' = TRUE
               /\ RenderApp(TRUE)
               /\ UNCHANGED <<videoPlaying, interactionMode>>
    /\ isLoadingSmile' = FALSE
    /\ hmc' = "none"
    /\ UNCHANGED <<modelsLoaded, streamRef, videoTime, clickMoodRef, requestRef>>
    /\ UNCHANGED <<hostVars, visionVars>>

\* the overlay's button, line 395
DismissOverlay ==
    /\ pc = "idle"
    /\ permissionError
    /\ interactionMode' = "click"
    /\ permissionError' = FALSE
    /\ RenderApp(FALSE)
    /\ UNCHANGED <<modelsLoaded, isLoadingSmile, streamRef, videoPlaying, videoTime,
                   clickMoodRef, requestRef, hmc, visionFailed>>
    /\ UNCHANGED <<hostVars, visionVars>>

\* handleScreenClick, lines 289-294: BOOST 0.7, capped at 1.0
HandleScreenClick ==
    /\ pc = "idle"
    /\ interactionMode = "click"
    /\ clickMoodRef' = Min(clickMoodRef + (7 * ClickUnit * Scale) \div 10, ClickUnit * Scale)
    /\ clickMoodRef' # clickMoodRef
    /\ UNCHANGED <<interactionMode, permissionError, modelsLoaded, isLoadingSmile,
                   streamRef, videoPlaying, videoTime, requestRef, hmc, visionFailed>>
    /\ UNCHANGED <<hostVars, engineVars, visionVars>>

\* the scene selector, lines 343-355, and SketchContainer's effect, lines 23-25
SetSceneMode ==
    /\ pc = "idle"
    /\ ~permissionError
    /\ \E m \in {1, 2, 3} \ {hostSceneMode} : hostSceneMode' = m
    /\ UNCHANGED <<hostTreeState, hostFlowerStyle, window>>
    /\ UNCHANGED <<engineVars, appVars, visionVars>>

\* the flower selector, lines 321-333, and SketchContainer's effect, lines 19-21
SetFlowerStyle ==
    /\ pc = "idle"
    /\ ~permissionError
    /\ \E st \in {"peach", "sakura", "delonix"} \ {hostFlowerStyle} : hostFlowerStyle' = st
    /\ UNCHANGED <<hostSceneMode, hostTreeState, window>>
    /\ UNCHANGED <<engineVars, appVars, visionVars>>

\* the camera delivers the next frame
VideoAdvance(E) ==
    /\ pc = "idle"
    /\ videoPlaying
    /\ videoTime < E.maxVideoTime
    /\ videoTime' = videoTime + 1
    /\ UNCHANGED <<interactionMode, permissionError, modelsLoaded, isLoadingSmile,
                   streamRef, videoPlaying, clickMoodRef, requestRef, hmc, visionFailed>>
    /\ UNCHANGED <<hostVars, engineVars, visionVars>>

\* mainLoop, lines 195-233
MainLoop(E) ==
    /\ pc = "idle"
    /\ requestRef < E.maxLoops
    /\ requestRef' = requestRef + 1
    /\ IF interactionMode = "forever" THEN
           /\ \E oscillation \in E.waves, sine \in E.waves :
                 hostTreeState' =
                    [mood |-> (6 * Scale) \div 10
                              + (4 * (oscillation + Scale)) \div 20,
                     windForce |-> (15 * sine) \div 100]
           /\ UNCHANGED <<clickMoodRef, lastVideoTime, lastHandX, lastCall>>
       ELSE IF interactionMode = "smile" THEN
           IF videoPlaying /\ streamRef THEN
               \E hasSize \in E.videoSized, face \in E.faces, hand \in E.hands :
                  LET r == AnalyzeFrame(videoTime, hasSize, face, hand)
                  IN  /\ hostTreeState' = [mood |-> r.moodScore,
                                           windForce |-> r.movementScore]
                      /\ lastVideoTime' = r.lastVideoTime
                      /\ lastHandX' = r.lastHandX
                      /\ lastCall' = AnalyzeCall(videoTime, r)
                      /\ UNCHANGED clickMoodRef
           ELSE /\ hostTreeState' = [mood |-> -Scale \div 2, windForce |-> 0]
                /\ UNCHANGED <<clickMoodRef, lastVideoTime, lastHandX, lastCall>>
       ELSE
           LET decayed == IF clickMoodRef > -ClickUnit * Scale
                          THEN clickMoodRef - 3 ELSE clickMoodRef
               floored == IF decayed < -ClickUnit * Scale
                          THEN -ClickUnit * Scale ELSE decayed
           IN  /\ clickMoodRef' = floored
               /\ hostTreeState' = [mood |-> TruncDiv(floored, ClickUnit),
                                    windForce |-> 0]
               /\ UNCHANGED <<lastVideoTime, lastHandX, lastCall>>
    /\ UNCHANGED <<interactionMode, permissionError, modelsLoaded, isLoadingSmile,
                   streamRef, videoPlaying, videoTime, hmc, visionFailed>>
    /\ UNCHANGED <<initializationPromise, initStep, faceLandmarker, gestureRecognizer,
                   promiseId, loading, held>>
    /\ UNCHANGED <<hostSceneMode, hostFlowerStyle, window>>
    /\ UNCHANGED engineVars

----------------------------------------------------------------------------
(* Specifications *)

\* createSketch's closure and p.setup: the state new p5(sketch) leaves
SketchInit ==
    /\ mounted = TRUE
    /\ pc = "idle"
    /\ width = NewSketch.width
    /\ height = NewSketch.height
    /\ currentMood = NewSketch.currentMood
    /\ currentWind = NewSketch.currentWind
    /\ currentSceneMode = NewSketch.currentSceneMode
    /\ forest = NewSketch.forest
    /\ rngState = NewSketch.rngState
    /\ particles = NewSketch.particles
    /\ frameCount = NewSketch.frameCount
    /\ mode = NewSketch.mode
    /\ calls = NewSketch.calls
    /\ rebuilt = NewSketch.rebuilt
    /\ nextId = NewSketch.nextId

\* App's useState and useRef initial values
AppInit ==
    /\ interactionMode = "click"
    /\ permissionError = FALSE
    /\ modelsLoaded = FALSE
    /\ isLoadingSmile = FALSE
    /\ streamRef = FALSE
    /\ videoPlaying = FALSE
    /\ videoTime = 0
    /\ clickMoodRef = -ClickUnit * Scale
    /\ requestRef = 0
    /\ hmc = "none"
    /\ visionFailed = FALSE

\* visionService's module state
VisionInit ==
    /\ initializationPromise = "null"
    /\ initStep = "none"
    /\ faceLandmarker = FALSE
    /\ gestureRecognizer = FALSE
    /\ lastVideoTime = -1
    /\ lastHandX = 0
    /\ promiseId = 0
    /\ loading = 0
    /\ held = [c \in Callers |-> 0]
    /\ lastCall = [op |-> "none", seq |-> 0]

\* the sketch mounted behind a host that hands it E's values
InitOf(E) ==
    /\ hostSceneMode \in E.modes
    /\ hostTreeState \in E.treeStates
    /\ hostFlowerStyle = "peach"
    /\ window \in E.sizes
    /\ SketchInit
    /\ AppInit
    /\ VisionInit

MaxFrames == 5
MaxSpawned == 2

\* the engine behind a host that may hand it any scene mode
EnvEngine ==
    [modes       |-> {1, 2, 3, 4},
     treeStates  |-> { [mood |-> Scale, windForce |-> (8 * Scale) \div 10] },
     sizes       |-> { <<1280, 720>>, <<375, 667>> },
     spawns      |-> { [count |-> 1, tip |-> "mid"] },
     maxFrames   |-> MaxFrames,
     maxSpawnFrame |-> MaxFrames,
     maxSpawned  |-> MaxSpawned]

\* the host starts in a scene of its selector and may hand over any mode later
Init == InitOf(EnvEngine) /\ hostSceneMode \in {1, 2, 3}

Next ==
    \/ DrawBegin(EnvEngine)
    \/ DrawForest(EnvEngine)
    \/ ParticlesTrim
    \/ ParticlesIntegrate
    \/ WindowResized(EnvEngine)
    \/ HostSetSceneMode(EnvEngine)

Spec == Init /\ [][Next]_vars

MaxFramesSignals == 5

\* the engine behind a host that may hand it any mood and wind
EnvSignals ==
    [modes       |-> {1, 3},
     treeStates  |-> { [mood |-> -Scale, windForce |-> 0],
                       [mood |-> Scale, windForce |-> (8 * Scale) \div 10],
                       [mood |-> 5 * Scale, windForce |-> -3 * Scale] },
     sizes       |-> { <<1280, 720>>, <<667, 375>> },
     spawns      |-> { [count |-> 1, tip |-> "mid"] },
     maxFrames   |-> MaxFramesSignals,
     maxSpawnFrame |-> MaxFramesSignals,
     maxSpawned  |-> MaxSpawned]

InitSignals == InitOf(EnvSignals)

NextSignals ==
    \/ DrawBegin(EnvSignals)
    \/ DrawForest(EnvSignals)
    \/ ParticlesTrim
    \/ ParticlesIntegrate
    \/ HostSetTreeState(EnvSignals)

SpecSignals == InitSignals /\ [][NextSignals]_vars

MaxFramesSpawn == 5
MaxSpawnedSpawn == 3

\* the engine with branch tips inside, on the edge of and outside the canvas margin
EnvSpawn ==
    [modes       |-> {1, 3},
     treeStates  |-> { [mood |-> Scale, windForce |-> (8 * Scale) \div 10] },
     sizes       |-> { <<1280, 720>>, <<375, 667>> },
     spawns      |-> { [count |-> 1, tip |-> "mid"], [count |-> 2, tip |-> "edge"],
                       [count |-> 1, tip |-> "left"], [count |-> 1, tip |-> "right"],
                       [count |-> 1, tip |-> "below"] },
     maxFrames   |-> MaxFramesSpawn,
     maxSpawnFrame |-> MaxFramesSpawn,
     maxSpawned  |-> MaxSpawnedSpawn]

InitSpawn == InitOf(EnvSpawn)

NextSpawn ==
    \/ DrawBegin(EnvSpawn)
    \/ DrawForest(EnvSpawn)
    \/ ParticlesTrim
    \/ ParticlesIntegrate
    \/ WindowResized(EnvSpawn)

SpecSpawn == InitSpawn /\ [][NextSpawn]_vars

MaxFramesParticles == 5
MaxSpawnedParticles == 402

\* the particle system under spawn bursts, scene-mode changes and resizes
EnvParticles ==
    [modes       |-> {1, 3},
     treeStates  |-> { [mood |-> Scale, windForce |-> (8 * Scale) \div 10] },
     sizes       |-> { <<1280, 720>>, <<667, 375>> },
     spawns      |-> { [count |-> 1, tip |-> "low"],
                       [count |-> MAX_PARTICLES + 1, tip |-> "low"] },
     maxFrames   |-> MaxFramesParticles,
     maxSpawnFrame |-> MaxFramesParticles,
     maxSpawned  |-> MaxSpawnedParticles]

InitParticles == InitOf(EnvParticles)

NextParticles ==
    \/ DrawBegin(EnvParticles)
    \/ DrawForest(EnvParticles)
    \/ ParticlesTrim
    \/ ParticlesIntegrate
    \/ WindowResized(EnvParticles)
    \/ HostSetSceneMode(EnvParticles)

SpecParticles == InitParticles /\ [][NextParticles]_vars

MaxFramesLife == 134
MaxSpawnFrameLife == 4
MaxSpawnedLife == 401

\* the particle system followed through whole particle lives, behind a steady
\* host: the branch tips ask for particles in the early frames only
EnvLife ==
    [modes       |-> {1},
     treeStates  |-> { [mood |-> Scale, windForce |-> (8 * Scale) \div 10] },
     sizes       |-> { <<1280, 720>> },
     spawns      |-> { [count |-> 1, tip |-> "mid"],
                       [count |-> 1, tip |-> "low"],
                       [count |-> MAX_PARTICLES + 1, tip |-> "low"] },
     maxFrames   |-> MaxFramesLife,
     maxSpawnFrame |-> MaxSpawnFrameLife,
     maxSpawned  |-> MaxSpawnedLife]

InitLife == InitOf(EnvLife)

NextLife ==
    \/ DrawBegin(EnvLife)
    \/ DrawForest(EnvLife)
    \/ ParticlesTrim
    \/ ParticlesIntegrate

SpecLife == InitLife /\ [][NextLife]_vars

MaxFramesApp == 1
MaxLoops == 2
MaxVideoTime == 1

\* the whole application: the engine behind App, as the user drives it
EnvApp ==
    [modes       |-> {1},
     treeStates  |-> { [mood |-> -Scale, windForce |-> 0] },
     sizes       |-> { <<1280, 720>> },
     spawns      |-> { [count |-> 1, tip |-> "mid"] },
     maxFrames   |-> MaxFramesApp,
     maxSpawnFrame |-> MaxFramesApp,
     maxSpawned  |-> 1,
     maxLoops    |-> MaxLoops,
     maxVideoTime |-> MaxVideoTime,
     waves       |-> {-Scale, Scale},
     videoSized  |-> {TRUE},
     faces       |-> { [kind |-> "none", smile |-> 0, frown |-> 0],
                       [kind |-> "face", smile |-> Scale \div 2, frown |-> 0] },
     hands       |-> { [kind |-> "none", x |-> 0],
                       [kind |-> "hand", x |-> Scale \div 2] }]

InitApp == InitOf(EnvApp)

NextApp ==
    \/ DrawBegin(EnvApp)
    \/ DrawForest(EnvApp)
    \/ ParticlesTrim
    \/ ParticlesIntegrate
    \/ MainLoop(EnvApp)
    \/ HandleModeChange
    \/ HandleModeChangeSmile
    \/ VisionLoad
    \/ CameraAnswer
    \/ VideoPlay
    \/ VideoAdvance(EnvApp)
    \/ DismissOverlay
    \/ HandleScreenClick

SpecApp == InitApp /\ [][NextApp]_vars

MaxVideoTimeVision == 1

\* the vision service called directly: any caller, any video
EnvVision ==
    [modes       |-> {1},
     treeStates  |-> { [mood |-> -Scale, windForce |-> 0] },
     sizes       |-> { <<1280, 720>> },
     maxVideoTime |-> MaxVideoTimeVision,
     videoSized  |-> {TRUE, FALSE},
     faces       |-> { [kind |-> "none", smile |-> 0, frown |-> 0],
                       [kind |-> "face", smile |-> Scale \div 2, frown |-> 0] },
     hands       |-> { [kind |-> "none", x |-> 0],
                       [kind |-> "hand", x |-> Scale \div 2] }]

InitVision == InitOf(EnvVision)

NextVision ==
    \/ CallInitializeVision
    \/ VisionLoad
    \/ CallAnalyzeFrame(EnvVision)

SpecVision == InitVision /\ [][NextVision]_vars

\* the selectors of the scene and of the flower style, over a ticking engine
NextScene ==
    \/ DrawBegin(EnvApp)
    \/ DrawForest(EnvApp)
    \/ ParticlesTrim
    \/ ParticlesIntegrate
    \/ MainLoop(EnvApp)
    \/ HandleScreenClick
    \/ SetSceneMode
    \/ SetFlowerStyle

SpecScene == InitApp /\ [][NextScene]_vars

MaxFramesBloom == 4

\* the renderer's foliage under moods that rise and fall, in a large and a
\* small viewport
EnvBloom ==
    [modes       |-> {1, 2, 3},
     treeStates  |-> { [mood |-> -Scale, windForce |-> 0],
                       [mood |-> 3 * Scale, windForce |-> 0] },
     sizes       |-> { <<1280, 720>>, <<667, 375>> },
     spawns      |-> { [count |-> 1, tip |-> "mid"] },
     maxFrames   |-> MaxFramesBloom,
     maxSpawnFrame |-> 0,
     maxSpawned  |-> 0]

InitBloom == InitOf(EnvBloom)

NextBloom ==
    \/ DrawBegin(EnvBloom)
    \/ DrawForest(EnvBloom)
    \/ ParticlesTrim
    \/ ParticlesIntegrate
    \/ HostSetTreeState(EnvBloom)

SpecBloom == InitBloom /\ [][NextBloom]_vars

----------------------------------------------------------------------------
(* Properties of the particle system *)

Ids(ps) == { ps[i].id : i \in 1..Len(ps) }

\* C1: after every completed tick of p.draw, whatever ticks, spawns, scene-mode
\* changes and resizes came before, at most MAX_PARTICLES particles are live.
C1_LiveParticlesBounded ==
    pc = "idle" => Len(particles) <= MAX_PARTICLES

\* a tick has completed with the collection full, after more than MAX_PARTICLES spawns
C1_Witness ==
    /\ pc = "idle"
    /\ frameCount > 0
    /\ Len(particles) = MAX_PARTICLES
    /\ nextId > MAX_PARTICLES

\* C2 as stated: a particle leaves the collection exactly when, integrated, its
\* life is <= 0 or it is more than 100 below the viewport; no other particle
\* is ever removed.
C2_RemovedExactlyWhenSpent ==
    [][ LET kept == Ids(particles')
        IN  \A i \in 1..Len(particles) :
               LET part  == particles[i]
                   after == IntegrateParticle(part)
                   spent == after.life <= 0 \/ after.y > (height + 100) * Scale
                   gone  == part.id \notin kept
               IN  /\ gone => (pc = "integrate" /\ spent)
                   /\ (pc = "integrate" /\ spent) => gone ]_vars

\* C2, amended: a particle leaves the collection exactly when the trim of an
\* overfull collection discards it as one of the oldest, or when, integrated,
\* its life is <= 0 or it is more than 100 below the viewport; and no particle
\* for which either of the two holds survives the tick.
C2_RemovedWhenSpentOrTrimmed ==
    [][ LET kept == Ids(particles')
        IN  \A i \in 1..Len(particles) :
               LET part    == particles[i]
                   after   == IntegrateParticle(part)
                   spent   == after.life <= 0 \/ after.y > (height + 100) * Scale
                   trimmed == pc = "particles" /\ i <= Len(particles) - MAX_PARTICLES
                   gone    == part.id \notin kept
               IN  /\ gone => (trimmed \/ (pc = "integrate" /\ spent))
                   /\ (pc = "integrate" /\ spent) => gone ]_vars

\* the one particle ever spawned has been removed: no trim took part
C2_Witness ==
    /\ pc = "idle"
    /\ nextId = 1
    /\ particles = << >>

\* C3: a particle is created with life 255; the integration of every tick it
\* lives through takes exactly 2 from its life, and no other step changes it.
C3_LifeFadesByTwo ==
    [][ LET fade   == IF pc = "integrate" THEN 2 ELSE 0
            before == Ids(particles)
            faded  == { <<particles[i].id, particles[i].life - fade>> :
                           i \in 1..Len(particles) }
        IN  \A j \in 1..Len(particles') :
               LET q == particles'[j]
               IN  IF q.id \notin before THEN q.life = 255
                   ELSE <<q.id, q.life>> \in faded ]_vars

\* a particle in its third tick
C3_Witness ==
    /\ pc = "integrate"
    /\ \E i \in 1..Len(particles) : particles[i].life = 255 - 2 * 2

\* C4: the trim of an overfull collection comes before the integration and
\* discards the oldest: what is left is the MAX_PARTICLES most recently
\* spawned particles, in spawn order and not yet integrated.
C4_TrimKeepsNewestBeforeIntegration ==
    [][ (pc = "particles" /\ Len(particles) > MAX_PARTICLES) =>
           LET drop == Len(particles) - MAX_PARTICLES
           IN  /\ pc' = "integrate"
               /\ Len(particles') = MAX_PARTICLES
               /\ \A j \in 1..MAX_PARTICLES : particles'[j] = particles[drop + j]
               /\ \A i \in 1..drop : particles[i].id < particles'[1].id
               /\ \A j \in 1..(MAX_PARTICLES - 1) :
                     particles'[j].id < particles'[j + 1].id ]_vars

\* the trim has just discarded the oldest of an overfull collection
C4_Witness ==
    /\ pc = "integrate"
    /\ Len(particles) = MAX_PARTICLES
    /\ nextId > MAX_PARTICLES
    /\ particles[1].id = nextId - MAX_PARTICLES
    /\ particles[1].life = 255

----------------------------------------------------------------------------
(* Properties of the forest, the signals and the accessors *)

\* C5: whenever the renderer walks the forest, the recorded scene mode is the
\* mode read in that tick, and the forest is the whole configuration of that
\* mode (tree count, depth limit) built for the canvas as it is now, whether a
\* scene-mode change or a resize came before.
C5_ForestCompleteWhenRendered ==
    pc = "render" =>
        /\ mode = hostSceneMode
        /\ currentSceneMode = mode
        /\ Len(forest) = (IF mode = 1 THEN 1 ELSE IF mode = 2 THEN 2 ELSE 10)
        /\ \A i \in 1..Len(forest) :
              /\ forest[i].branch.maxDepth
                    = (IF mode = 1 THEN 9 ELSE IF mode = 2 THEN 8 ELSE 7)
              /\ forest[i].branch.len
                    = height * (IF width < 600 THEN 220 ELSE 260)
              /\ mode \in {1, 2, 3} => forest[i].branch.maxDepth = RenderMaxDepth

\* the renderer is about to walk a forest rebuilt in this very tick
C5_Witness ==
    /\ pc = "render"
    /\ rebuilt
    /\ mode = 3
    /\ Len(forest) = 10

\* C6 as stated: a scene mode outside {1, 2, 3} leaves the single-tree
\* configuration, one tree with xRatio 0.5 and scale 1.0.
C6_OutOfRangeModeIsSingleTree ==
    currentSceneMode \notin {1, 2, 3} =>
        /\ Len(forest) = 1
        /\ forest[1].xRatio = 500
        /\ forest[1].scale = Scale

\* C7 as stated: whatever raw values the host hands over, the smoothed mood
\* and the smoothed wind stay within [-1, 1].
C7_SmoothedSignalsInRange ==
    /\ currentMood >= -Scale /\ currentMood <= Scale
    /\ currentWind >= -Scale /\ currentWind <= Scale

\* C8 as stated: when a model load or a camera request has failed, the
\* sketch stays mounted.
C8_CoreSurvivesVisionFailure ==
    visionFailed => mounted

----------------------------------------------------------------------------
(* Properties of the foliage *)

\* the moods the foliage of a tree is compared at
MoodSamples == { -Scale, 0, 3 * (Scale \div 10), 6 * (Scale \div 10), Scale }

NearTerminal(n) == n.depth > RenderMaxDepth - 4

\* the foliage renderBranch attaches to a forest tree at bloom factor b
FoliageAt(tree, b) ==
    RenderBranch(Skeleton(tree.branch), (tree.branch.len * tree.scale) \div Scale,
                 << >>, b, RenderMaxDepth)

\* C10 as stated: a near-terminal branch with noise threshold t carries
\* foliage in a tick iff clamp(smoothedMood, 0, 1) > t.
C10_AttachedIffBloomAboveThreshold ==
    pc = "render" =>
        \A i \in 1..Len(forest) :
            LET foliage == FoliageAt(forest[i], BloomFactor)
            IN  \A n \in TreeBranches(forest[i], RenderMaxDepth) :
                    NearTerminal(n) =>
                        (n.path \in foliage <=>
                            Constrain(currentMood, 0, Scale) > n.noiseThreshold)

\* C10, amended: a near-terminal branch with noise threshold t carries foliage
\* in a tick iff the render recursion gets to it (no branch above it was
\* rendered shorter than 4 pixels) and clamp(smoothedMood, 0, 1) > t; the
\* number of branches of a tree that carry foliage does not fall as the mood
\* rises, and is zero whenever the mood is <= 0.
C10_AttachedIffReachedAndBloomAbove ==
    pc = "render" =>
        \A i \in 1..Len(forest) :
            LET foliage == FoliageAt(forest[i], BloomFactor)
            IN  /\ \A n \in TreeBranches(forest[i], RenderMaxDepth) :
                       NearTerminal(n) =>
                          (n.path \in foliage <=>
                              (n.reached /\
                               Constrain(currentMood, 0, Scale) > n.noiseThreshold))
                /\ \A m \in MoodSamples :
                       m <= currentMood =>
                          Cardinality(FoliageAt(forest[i], Constrain(m, 0, Scale)))
                              <= Cardinality(foliage)
                /\ currentMood <= 0 => foliage = {}

\* a tree in bloom, one of whose twigs is above its threshold and bare
\* because the recursion stopped short of it
C10_Witness ==
    /\ pc = "render"
    /\ currentMood > 0
    /\ \E i \in 1..Len(forest) :
          /\ FoliageAt(forest[i], BloomFactor) # {}
          /\ \E n \in TreeBranches(forest[i], RenderMaxDepth) :
                /\ NearTerminal(n)
                /\ ~n.reached
                /\ BloomFactor > n.noiseThreshold

----------------------------------------------------------------------------
(* Properties of the signal smoother *)

Abs(v) == IF v < 0 THEN -v ELSE v

\* C11: a tick whose raw mood is >= the smoothed mood moves the smoothed mood
\* 0.10 of the gap, a tick whose raw mood is below it 0.03 of the gap (to the
\* last digit kept); from 0, one tick toward 1 moves it by 0.1 and one tick
\* toward -1 by 0.03, so rising is faster than falling.
C11_MoodRisesFasterThanItFalls ==
    [][ (pc = "idle" /\ pc' = "render") =>
           LET raw   == hostTreeState.mood
               gap   == raw - currentMood
               delta == currentMood' - currentMood
           IN  /\ raw >= currentMood =>
                     delta >= 0 /\ Abs(100 * delta - 10 * gap) < 100
               /\ raw < currentMood =>
                     delta <= 0 /\ Abs(100 * delta - 3 * gap) < 100
               /\ (currentMood = 0 /\ raw = Scale) => delta = Scale \div 10
               /\ (currentMood = 0 /\ raw = -Scale) => delta = -((3 * Scale) \div 100) ]_vars

\* the first tick went from 0 toward -1, and a later tick rose from there
C11_Witness ==
    /\ pc = "render"
    /\ frameCount = 2
    /\ hostTreeState.mood = Scale
    /\ currentMood = -((3 * Scale) \div 100) + (Scale + (3 * Scale) \div 100) \div 10

\* C16: on every tick the smoothed wind moves toward the raw wind w and the
\* gap |w - smoothedWind| shrinks by the factor 0.88 (to the last digit kept);
\* the smoothed wind never passes w nor changes side of it.
C16_WindApproachesMonotonically ==
    [][ (pc = "idle" /\ pc' = "render") =>
           LET w    == hostTreeState.windForce
               gap  == w - currentWind
               gap2 == w - currentWind'
           IN  /\ Abs(100 * gap2 - 88 * gap) < 100
               /\ Abs(gap2) <= Abs(gap)
               /\ gap > 0 => gap2 >= 0
               /\ gap < 0 => gap2 <= 0
               /\ gap = 0 => gap2 = 0 ]_vars

\* three ticks with the raw wind held at 0.8 from rest
C16_Witness ==
    /\ pc = "render"
    /\ frameCount = 3
    /\ hostTreeState.windForce = (8 * Scale) \div 10
    /\ currentWind = 254

\* the number of nodes of a Branch tree
RECURSIVE NodeCount(_)
NodeCount(b) ==
    IF Len(b.children) = 0 THEN 1
    ELSE 1 + NodeCount(b.children[1]) + NodeCount(b.children[Len(b.children)])

\* every node has no children or two, and has none exactly at depth D
RECURSIVE FullBinary(_, _)
FullBinary(b, D) ==
    /\ Len(b.children) \in {0, 2}
    /\ Len(b.children) = 0 <=> b.depth = D
    /\ \A k \in 1..Len(b.children) : FullBinary(b.children[k], D)

\* C12: a build is determined by its seed, its depth limit and the viewport:
\* every tree of a forest rebuilt in this tick, whatever the random stream held
\* before the build (particle spawns, the builds before it), is node for node
\* the tree the same build gives on a fresh stream; every node has no or two
\* children, none exactly at the depth limit D, and there are 2^(D+1) - 1 nodes.
C12_BuildIsDeterministicAndExact ==
    (pc = "render" /\ rebuilt) =>
        \A i \in 1..Len(forest) :
            LET sk   == forest[i].branch
                D    == sk.maxDepth
                tree == Skeleton(sk)
            IN  /\ tree = Skeleton(BuildTreeSkeleton(UnseededStream, D, forest[i].seed,
                                                     width, height))
                /\ NodeCount(tree) = 2^(D + 1) - 1
                /\ FullBinary(tree, D)

\* a forest rebuilt after particle spawns had drawn from the random stream
C12_Witness ==
    /\ pc = "render"
    /\ rebuilt
    /\ nextId > 0
    /\ currentSceneMode = 2

\* C13: a forest rebuilt for scene mode 3, at whatever viewport, holds exactly
\* ten trees; the i-th (from 0) stands at xRatio 0.05 + i * 0.9 / 9, has the
\* depth limit 7, below the limits 9 and 8 of the scenes of one and two trees,
\* and a seed no other tree of the forest has.
C13_ForestSceneHasTenSpreadTrees ==
    currentSceneMode = 3 =>
        /\ Len(forest) = 10
        /\ \A i \in 1..Len(forest) :
              /\ forest[i].xRatio = (5 * Scale) \div 100 + ((i - 1) * Scale) \div 10
              /\ forest[i].branch.maxDepth = 7
              /\ forest[i].branch.maxDepth < 8
              /\ \A j \in 1..Len(forest) : forest[j].seed = forest[i].seed => j = i

\* the forest scene rebuilt in a tick on the narrow viewport
C13_Witness ==
    /\ currentSceneMode = 3
    /\ pc = "render"
    /\ rebuilt
    /\ width = 375
    /\ Len(forest) = ForestTreeCount

\* the particles k calls of spawnFallingParticle at (x, y) added to ps
AddedAt(ps, ps2, k, x, y) ==
    /\ Len(ps2) = Len(ps) + k
    /\ \A j \in 1..Len(ps) : ps2[j] = ps[j]
    /\ \A j \in 1..k :
          /\ ps2[Len(ps) + j].x0 = x
          /\ ps2[Len(ps) + j].y = y
          /\ ps2[Len(ps) + j].life = 255

\* C14 as stated: every call of spawnFallingParticle, wherever the position
\* lies, adds exactly one particle at that position with life 255.
C14_EverySpawnAddsOne ==
    [][ (pc = "render" /\ pc' = "particles") =>
           AddedAt(particles, particles', calls'.spawn.count,
                   calls'.spawn.x, calls'.spawn.y) ]_vars

\* C14: a call of spawnFallingParticle at a position with
\* -50 <= x <= width + 50 and y <= height adds exactly one particle, at that
\* position and with life 255, and leaves the others as they were; a call at
\* a position outside adds none.
C14_SpawnInsideAddsOneOutsideNone ==
    [][ (pc = "render" /\ pc' = "particles") =>
           LET ask    == calls'.spawn
               inside == /\ ask.x >= -50 * Scale
                         /\ ask.x <= (width + 50) * Scale
                         /\ ask.y <= height * Scale
           IN  IF inside
               THEN AddedAt(particles, particles', ask.count, ask.x, ask.y)
               ELSE particles' = particles ]_vars

\* two calls at the right edge of the margin added two particles there
C14_Witness ==
    /\ pc = "particles"
    /\ calls.spawn.count = 2
    /\ calls.spawn.x = (width + 50) * Scale
    /\ Len(particles) = 3
    /\ particles[2].x0 = calls.spawn.x
    /\ particles[3].x0 = calls.spawn.x
    /\ particles[3].life = 255

\* C15: a call of analyzeFrame made while either model is not loaded, or with
\* the timestamp of the frame analysed last, returns {moodScore: 0,
\* movementScore: 0} and leaves lastVideoTime and lastHandX as they were.
C15_GuardedFrameReturnsZeroAndKeepsState ==
    [][ (lastCall' # lastCall /\ lastCall'.op = "analyzeFrame"
         /\ (~faceLandmarker \/ ~gestureRecognizer \/ lastCall'.time = lastVideoTime)) =>
           /\ lastCall'.moodScore = 0
           /\ lastCall'.movementScore = 0
           /\ lastVideoTime' = lastVideoTime
           /\ lastHandX' = lastHandX ]_vars

\* a frame with a new timestamp was handed over with the gesture model still
\* missing, and the timestamp of the last analysed frame is the initial one
C15_Witness ==
    /\ lastCall.op = "analyzeFrame"
    /\ faceLandmarker
    /\ ~gestureRecognizer
    /\ lastCall.time = 1
    /\ lastCall.moodScore = 0
    /\ lastVideoTime = -1

\* C17: at most one initialization is ever in flight; a call of
\* initializeVision made while one is in flight or after one succeeded returns
\* the stored promise and starts no loading; a failed initialization resets
\* the stored promise, and the call after it starts a fresh initialization
\* with a promise no caller holds.
C17_OneInitializationAtATime ==
    /\ [](loading <= 1)
    /\ [][ (lastCall' # lastCall /\ lastCall'.op = "initializeVision") =>
              IF initializationPromise # "null"
              THEN /\ lastCall'.promise = promiseId
                   /\ promiseId' = promiseId
                   /\ initializationPromise' = initializationPromise
                   /\ loading' = loading
                   /\ initStep' = initStep
              ELSE /\ lastCall'.promise = promiseId'
                   /\ promiseId' # 0
                   /\ \A c \in Callers : held[c] # promiseId'
                   /\ initializationPromise' = "pending"
                   /\ loading' = 1
                   /\ initStep' = "resolver" ]_vars
    /\ [][ (loading' < loading /\ ~gestureRecognizer') =>
              (initializationPromise' = "null" /\ promiseId' = 0) ]_vars

\* a fresh initialization is in flight for the second caller while the first
\* still holds the promise of the initialization that failed
C17_Witness ==
    /\ initializationPromise = "pending"
    /\ loading = 1
    /\ promiseId = 2
    /\ held[1] = 1
    /\ held[2] = 2
    /\ visionFailed

\* C18: when handleModeChange('smile') ends without having entered smile mode
\* (the model initialization or the camera failed), the interaction mode is
\* the one it was and permissionError is true; the mode becomes 'smile' only
\* once the models are loaded and the camera is streaming.
C18_FailedSmileKeepsModeAndRaisesError ==
    [][ /\ (hmc # "none" /\ hmc' = "none" /\ interactionMode' # "smile") =>
               (interactionMode' = interactionMode /\ permissionError')
        /\ (interactionMode # "smile" /\ interactionMode' = "smile") =>
               (modelsLoaded' /\ streamRef' /\ videoPlaying') ]_vars

\* C19: no particle of the collection has gone through 128 integrations: its
\* 128th brings the life to 255 - 2 * 128 < 0 and removes it; and once 128
\* ticks in a row have run without a spawn, the collection is empty.
C19_ParticlesGoneWithin128Ticks ==
    /\ \A i \in 1..Len(particles) : particles[i].age < 128
    /\ (pc = "idle" /\ frameCount >= EnvLife.maxSpawnFrame + 128) => particles = << >>

\* a particle spawned at mid-height is still there after 127 integrations
C19_Witness ==
    /\ pc = "idle"
    /\ \E i \in 1..Len(particles) : particles[i].age = 127 /\ particles[i].life = 1

====
